---- MODULE Spec2Model ----
(***************************************************************************)
(* tagmv: move planning and safe execution (src/src/sorting.rs) as driven  *)
(* by main (src/src/main.rs).  A run plans a batch of PlannedMove records, *)
(* resolve_conflicts rewrites colliding destinations, then every entry is  *)
(* handed to execute_move in batch order.  The filesystem is a map from    *)
(* paths to entries (absent, directory, regular file with its bytes); an   *)
(* external process may create entries at destinations while moves run.    *)
(*                                                                         *)
(* A path component is a sequence of one-character strings, a path is a    *)
(* sequence of components (all paths are absolute).                        *)
(***************************************************************************)
EXTENDS Integers, Sequences, FiniteSets, TLC

\* ------------------------------------------------------------ bounds
\* Entries in one batch.
MaxBatch == 2
\* Entries an external process may create while the batch executes.
MaxExternal == 1
\* sorting.rs:13 sets 10_000; the model runs the same loop with a small
\* ceiling so that exhaustion is reachable.
MAX_CONFLICT_ATTEMPTS == 3
\* Entries in a batch whose entries ask for few names in one directory.
MaxGroup == 3
\* Characters in an input of sanitize written in the CoreAlphabet.
MaxLen == 4
\* Characters in an input of sanitize written in the FullAlphabet.
MaxShort == 2

\* ------------------------------------------------------------ strings
Digit(n) ==
    CASE n = 0 -> "0" [] n = 1 -> "1" [] n = 2 -> "2" [] n = 3 -> "3"
      [] n = 4 -> "4" [] n = 5 -> "5" [] n = 6 -> "6" [] n = 7 -> "7"
      [] n = 8 -> "8" [] n = 9 -> "9"

\* format!("{}", n) of an unsigned integer.
RECURSIVE Decimal(_)
Decimal(n) ==
    IF n < 10 THEN <<Digit(n)>> ELSE Decimal(n \div 10) \o <<Digit(n % 10)>>

\* format!("{:02}", n): at least two digits, padded with zeros.
Pad2(n) == IF n < 10 THEN <<"0">> \o Decimal(n) ELSE Decimal(n)

\* Option<T>
None == [some |-> FALSE, val |-> <<>>]
Some(v) == [some |-> TRUE, val |-> v]
UnwrapOr(o, d) == IF o.some THEN o.val ELSE d

\* A byte of an OsStr that is not part of any UTF-8 sequence.
BadByte == "0xFF"

\* OsStr::to_str: None unless the name is valid UTF-8.
\* (CHOOSE over a set of one names a value that is worked out once.)
ToStr(os) ==
    CHOOSE r \in {IF \E i \in 1..Len(s) : s[i] = BadByte
                  THEN None ELSE Some(s) : s \in {os}} : TRUE

\* Option::and_then(|s| s.to_str())
AndThenToStr(o) == IF o.some THEN ToStr(o.val) ELSE None

\* str::rsplit_once('.').map_or("", |(_, e)| e): what follows the last dot.
AfterLastDot(name) ==
    LET dots == {i \in 1..Len(name) : name[i] = "."}
    IN  IF dots = {} THEN <<>>
        ELSE SubSeq(name, (CHOOSE i \in dots : \A j \in dots : j <= i) + 1, Len(name))

\* ------------------------------------------------------------ sanitize
\* U+00A0, a whitespace character that is not a control character.
Nbsp == "U+00A0"

\* char::is_control, for the control characters of the model's alphabet.
IsControl(c) == c \in {"\t", "\n"}

\* char::is_whitespace
IsWhitespace(c) == c \in {" ", "\t", "\n", Nbsp}

\* The characters sanitize deletes by name (sorting.rs:23).
DeletedChars == {":", "*", "?", "\"", "<", ">", "|"}

CharReplacedNotDeleted(c) ==
    IF c \in {"/", "\\"} \cup DeletedChars THEN <<"-">>
    ELSE IF IsControl(c) THEN <<>>
    ELSE <<c>>

ControlKept(c) ==
    IF c \in {"/", "\\"} THEN <<"-">>
    ELSE IF c \in DeletedChars THEN <<>>
    ELSE <<c>>

SlashKept(c) ==
    IF c = "\\" THEN <<"-">>
    ELSE IF c \in DeletedChars THEN <<>>
    ELSE IF IsControl(c) THEN <<>>
    ELSE <<c>>

\* sorting.rs:21-26: what one character of the input contributes to out.
PushChar(c) ==
    IF c \in {"/", "\\"} THEN <<"-">>
    ELSE IF c \in DeletedChars THEN <<>>
    ELSE IF IsControl(c) THEN <<>>
    ELSE <<c>>

\* sorting.rs:20-27: the per-character pass.
RECURSIVE ReplaceAndDelete(_)
ReplaceAndDelete(str) ==
    IF str = <<>> THEN <<>>
    ELSE PushChar(Head(str)) \o ReplaceAndDelete(Tail(str))

\* str::split_whitespace: the maximal runs of characters that are not
\* whitespace.
RECURSIVE SplitWhitespace(_)
SplitWhitespace(str) ==
    IF str = <<>> THEN <<>>
    ELSE IF IsWhitespace(Head(str)) THEN SplitWhitespace(Tail(str))
    ELSE LET ends == {i \in 1..Len(str) :
                        /\ \A j \in 1..i : ~IsWhitespace(str[j])
                        /\ (i = Len(str) \/ IsWhitespace(str[i + 1]))}
             n == CHOOSE i \in ends : TRUE
         IN  <<SubSeq(str, 1, n)>> \o SplitWhitespace(SubSeq(str, n + 1, Len(str)))

\* [&str]::join(" ")
RECURSIVE JoinSpace(_)
JoinSpace(words) ==
    IF words = <<>> THEN <<>>
    ELSE IF Len(words) = 1 THEN words[1]
    ELSE words[1] \o <<" ">> \o JoinSpace(Tail(words))

TrimOneDotOrSpace(str) ==
    LET a == IF str # <<>> /\ Head(str) \in {".", " "} THEN Tail(str) ELSE str
    IN  IF a # <<>> /\ a[Len(a)] \in {".", " "}
        THEN SubSeq(a, 1, Len(a) - 1) ELSE a

\* str::trim_matches(|c| c == '.' || c == ' ')
TrimDotsAndSpaces(str) ==
    LET keep == {i \in 1..Len(str) : str[i] \notin {".", " "}}
    IN  IF keep = {} THEN <<>>
        ELSE SubSeq(str, CHOOSE i \in keep : \A j \in keep : i <= j,
                         CHOOSE i \in keep : \A j \in keep : j <= i)

LowerCase == <<"a","b","c","d","e","f","g","h","i","j","k","l","m",
               "n","o","p","q","r","s","t","u","v","w","x","y","z">>
UpperCase == <<"A","B","C","D","E","F","G","H","I","J","K","L","M",
               "N","O","P","Q","R","S","T","U","V","W","X","Y","Z">>

\* char::to_ascii_uppercase
AsciiUpper(c) ==
    IF \E i \in 1..26 : LowerCase[i] = c
    THEN UpperCase[CHOOSE i \in 1..26 : LowerCase[i] = c]
    ELSE c

StartsWithIgnoreAsciiCase(a, b) ==
    /\ Len(a) <= Len(b)
    /\ \A i \in 1..Len(a) : AsciiUpper(a[i]) = AsciiUpper(b[i])

\* str::eq_ignore_ascii_case
EqIgnoreAsciiCase(a, b) ==
    /\ Len(a) = Len(b)
    /\ \A i \in 1..Len(a) : AsciiUpper(a[i]) = AsciiUpper(b[i])

\* sorting.rs:8-11
RESERVED_NAMES ==
    { <<"C","O","N">>, <<"P","R","N">>, <<"A","U","X">>, <<"N","U","L">> }
    \cup { <<"C","O","M">> \o <<Digit(n)>> : n \in 1..9 }
    \cup { <<"L","P","T">> \o <<Digit(n)>> : n \in 1..9 }

EmptyName == <<>>

\* sorting.rs:38
UnknownName == <<"U","n","k","n","o","w","n">>

\* sorting.rs:18-35: the text after the per-character pass, the whitespace
\* collapse and the trim.
Cleaned(str) ==
    TrimDotsAndSpaces(JoinSpace(SplitWhitespace(ReplaceAndDelete(str))))

\* sorting.rs:17-50
sanitize(str) ==
    LET trimmed == Cleaned(str)
    IN  IF trimmed = <<>> THEN UnknownName
        ELSE IF \E r \in RESERVED_NAMES : EqIgnoreAsciiCase(r, trimmed)
        THEN <<"_">> \o trimmed
        ELSE trimmed

\* Index of the last "." of a name, 0 when it has none.
LastDot(name) ==
    LET dots == {i \in 1..Len(name) : name[i] = "."}
    IN  IF dots = {} THEN 0 ELSE CHOOSE i \in dots : \A j \in dots : j <= i

\* std::path rsplit_file_at_dot: (before, after) around the last dot; a name
\* that is ".." or whose only dot is its first character has no "after".
RsplitFileAtDot(name) ==
    CHOOSE r \in
        {IF file = <<".", ".">> THEN [before |-> Some(file), after |-> None]
         ELSE IF d = 0 THEN [before |-> None, after |-> Some(file)]
         ELSE IF d = 1 THEN [before |-> Some(file), after |-> None]
         ELSE [before |-> Some(SubSeq(file, 1, d - 1)),
               after  |-> Some(SubSeq(file, d + 1, Len(file)))] :
            file \in {name}, d \in {LastDot(name)}} : TRUE

\* Path::file_name: the last component, None for the root or a final "..".
FileName(p) ==
    IF Len(p) = 0 \/ p[Len(p)] = <<".", ".">> THEN None ELSE Some(p[Len(p)])

\* Path::file_stem: before.or(after)
FileStem(p) ==
    LET f == FileName(p)
    IN  IF ~f.some THEN None
        ELSE LET s == RsplitFileAtDot(f.val)
             IN  IF s.before.some THEN s.before ELSE s.after

\* Path::extension: before.and(after)
Extension(p) ==
    LET f == FileName(p)
    IN  IF ~f.some THEN None
        ELSE LET s == RsplitFileAtDot(f.val)
             IN  IF s.before.some THEN s.after ELSE None

\* Path::parent
Parent(p) == IF Len(p) = 0 THEN None ELSE Some(SubSeq(p, 1, Len(p) - 1))

\* The components of a path written as text: it is cut at every "/", and
\* empty pieces and "." are no components.
RECURSIVE Components(_)
Components(text) ==
    IF text = <<>> THEN <<>>
    ELSE LET cuts == {i \in 1..Len(text) : text[i] = "/"}
             n == IF cuts = {} THEN Len(text) + 1
                  ELSE CHOOSE i \in cuts : \A j \in cuts : i <= j
             piece == SubSeq(text, 1, n - 1)
             rest == Components(SubSeq(text, n + 1, Len(text)))
         IN  IF piece = <<>> \/ piece = <<".">> THEN rest ELSE <<piece>> \o rest

\* Path::join: a text that begins with "/" replaces the path, any other is
\* appended, one component for each of its pieces.
Join(p, text) ==
    IF text # <<>> /\ text[1] = "/" THEN Components(text) ELSE p \o Components(text)

\* Every proper ancestor directory of p below the root, outermost first.
Ancestors(p) == {SubSeq(p, 1, k) : k \in 1..(Len(p) - 1)}

\* ------------------------------------------------------------ universe
M == <<"m">>
F == <<"F">>
D == <<"d">>
X == <<"x">>
\* main.rs:112 the directory main scans and sorts into, and the folder of the
\* planned destinations in it.
BaseDir == <<M>>
DestDir == <<M, F>>
\* main.rs:129 the scanned files lie below BaseDir: in a subdirectory, and in
\* one that is the mount point of another device.
SrcDir == <<M, D>>
RemoteDir == <<M, X>>
\* A direct caller of execute_move may move a file from anywhere: a
\* directory outside BaseDir, on its device and on another one.
DownloadDir == <<D>>
RemoteDownloadDir == <<X>>

\* The device a path is on: rename(2) across devices fails with EXDEV.
Device(p) == IF \E i \in 1..Len(p) : p[i] = X THEN "other" ELSE "root"

\* The names a plan may ask for in DestDir.
PlannedNames == { <<"a", ".", "x">>, <<"a", " ", "(", "1", ")", ".", "x">> }

\* sorting.rs:137-155: the candidate with suffix n for the planned path dest.
SuffixedName(dest, n) ==
    CHOOSE new_name \in
        {IF ext = <<>>
         THEN stem \o <<" ", "(">> \o Decimal(n) \o <<")">>
         ELSE stem \o <<" ", "(">> \o Decimal(n) \o <<")", ".">> \o ext :
            stem \in {UnwrapOr(AndThenToStr(FileStem(dest)),
                               <<"f", "i", "l", "e">>)},
            ext \in {UnwrapOr(AndThenToStr(Extension(dest)), <<>>)}} : TRUE

CandidateInBase(dest, n) == Join(BaseDir, SuffixedName(dest, n))

Candidate(dest, n) ==
    CHOOSE c \in {Join(parent, new_name) :
                     parent \in {UnwrapOr(Parent(dest), <<>>)},
                     new_name \in {SuffixedName(dest, n)}} : TRUE

PlannedDests == {Join(DestDir, n) : n \in PlannedNames}

\* Names with an extension, without a dot, and with a dot at the end.
GroupNames == { <<"a", ".", "x">>, <<"a">>, <<"a", ".">> }
GroupDests == {Join(DestDir, n) : n \in GroupNames}

\* Every path resolve_conflicts can generate from a planned destination.
DestPaths ==
    PlannedDests
    \cup {Candidate(d, n) : d \in PlannedDests, n \in 1..MAX_CONFLICT_ATTEMPTS}

\* The scanned files of batch position k, one on each device.
SourceOf(k) == Join(SrcDir, <<"s">> \o Decimal(k))
RemoteSourceOf(k) == Join(RemoteDir, <<"s">> \o Decimal(k))
\* The files a direct caller moves.
DownloadFile == Join(DownloadDir, <<"s">>)
RemoteDownloadFile == Join(RemoteDownloadDir, <<"s">>)

SourcePaths ==
    {SourceOf(k) : k \in 1..MaxBatch} \cup {RemoteSourceOf(k) : k \in 1..MaxBatch}
    \cup {SourceOf(k) : k \in 1..MaxGroup}
    \cup {DownloadFile, RemoteDownloadFile}

Directories == {BaseDir, DestDir, SrcDir, RemoteDir, DownloadDir, RemoteDownloadDir}

AllPaths == Directories \cup SourcePaths \cup DestPaths \cup GroupDests

\* ------------------------------------------------------------ filesystem
Absent == [kind |-> "absent", data |-> <<>>]
Dir == [kind |-> "dir", data |-> <<>>]
File(bytes) == [kind |-> "file", data |-> bytes]

\* The bytes of the file that batch position k moves.
Content(k) == <<k, k>>
\* A file that was in the destination directory before the run.
OldFile == File(<<8>>)
\* What the external process writes.
ExtFile == File(<<9>>)

\* Path::exists; a path the filesystem holds no entry for is absent.
Exists(fs, p) == p \in DOMAIN fs /\ fs[p].kind # "absent"

Prefixes(bytes) == {SubSeq(bytes, 1, k) : k \in 0..Len(bytes)}
ProperPrefixes(bytes) == Prefixes(bytes) \ {bytes}

\* ------------------------------------------------------------ state
VARIABLES
    moves,        \* main.rs:136 the batch, a sequence of PlannedMove
    disk,         \* the filesystem: AllPaths -> entry
    pc,           \* where main is
    claimed,      \* sorting.rs:126
    ri,           \* sorting.rs:128 position of resolve_conflicts' loop
    candidate,    \* sorting.rs:133
    counter,      \* sorting.rs:134
    gaveUp,       \* positions whose loop left through the break of sorting.rs:162
    planned,      \* the batch as planned, before resolve_conflicts
    xi,           \* main.rs:222 position of the execution loop
    source_len,   \* sorting.rs:219
    bytes_copied, \* sorting.rs:225
    rename_err,   \* sorting.rs:203 the error of the rename ("" when it succeeded)
    cleanup,      \* sorting.rs:235 the discarded result of removing the copy
    result,       \* what the running execute_move call returned
    atCall,       \* the filesystem when execute_move was called
    fallback,     \* positions whose call entered the copy fallback
    results,      \* per position, what execute_move returned (main.rs:227)
    success,      \* main.rs:219
    errors,       \* main.rs:220
    extPlaced,    \* the entries the external process created
    inputs,       \* main.rs:136-137 per planned entry, the file, what lofty
                  \* finds in it and what read_tags returned for it
    raw,          \* sorting.rs:17 the argument s of a call of sanitize
    sanitized,    \* what sanitize returned for raw
    resanitized,  \* what sanitize returned for its own result
    first         \* the batch and gaveUp as a first call of resolve_conflicts
                  \* left them, once it is called again on its result

vars == <<moves, disk, pc, claimed, ri, candidate, counter, gaveUp, planned,
          xi, source_len, bytes_copied, rename_err, cleanup, result, atCall,
          fallback, results,
          success, errors, extPlaced, inputs, raw, sanitized, resanitized,
          first>>

resolveVars == <<claimed, ri, candidate, counter, gaveUp>>
callVars == <<source_len, bytes_copied, rename_err, cleanup, result, atCall, fallback>>
sanitizeVars == <<raw, sanitized, resanitized>>
mainVars == <<xi, results, success, errors, inputs, sanitizeVars, first>>

\* sorting.rs:54-59
PlannedMove(source, dest) ==
    [source      |-> source,
     dest        |-> dest,
     folder_name |-> dest[Len(dest) - 1],
     file_name   |-> dest[Len(dest)]]

\* tags.rs:5-10
TrackMetadata(artist, album, title, track_number) ==
    [artist |-> artist, album |-> album, title |-> title,
     track_number |-> track_number]

\* sorting.rs:67-76: the extension of the source, or what follows the last
\* dot of its name, or nothing.
SourceExt(source) ==
    LET e == AndThenToStr(Extension(source))
        n == AndThenToStr(FileName(source))
    IN  IF e.some THEN e.val
        ELSE IF n.some THEN AfterLastDot(n.val)
        ELSE <<>>

\* The stem is sanitized like a title.
SanitizedStem(source) ==
    sanitize(UnwrapOr(AndThenToStr(FileStem(source)),
                      <<"U","n","k","n","o","w","n">>))

\* sorting.rs:82-87: the title of a file whose tags have none.
StemAsTitle(source) ==
    UnwrapOr(AndThenToStr(FileStem(source)), <<"U","n","k","n","o","w","n">>)

\* The track number is written without padding.
NoPad(n) == Decimal(n)

\* sorting.rs:90: format!("{:02}", n)
TrackPrefix(n) == Pad2(n)

\* sorting.rs:62-103
compute_destination(base_dir, source, meta) ==
    LET artist == sanitize(meta.artist)
        album == sanitize(meta.album)
        folder_name == artist \o <<" ", "-", " ">> \o album
        ext == SourceExt(source)
        title == IF meta.title.some THEN sanitize(meta.title.val)
                 ELSE StemAsTitle(source)
        file_name ==
            IF meta.track_number.some
            THEN TrackPrefix(meta.track_number.val) \o <<" ", "-", " ">>
                     \o title \o <<".">> \o ext
            ELSE title \o <<".">> \o ext
    IN  [source      |-> source,
         dest        |-> Join(Join(base_dir, folder_name), file_name),
         folder_name |-> folder_name,
         file_name   |-> file_name]

\* The name is sanitized.
SanitizedName(source) ==
    sanitize(UnwrapOr(AndThenToStr(FileName(source)),
                      <<"u","n","k","n","o","w","n">>))

\* sorting.rs:107-111
UnsortedName(source) ==
    UnwrapOr(AndThenToStr(FileName(source)), <<"u","n","k","n","o","w","n">>)

\* sorting.rs:113
UnsortedFolder == <<"_","U","n","s","o","r","t","e","d">>

\* sorting.rs:106-122
compute_unsorted_destination(base_dir, source) ==
    LET file_name == UnsortedName(source)
        folder_name == UnsortedFolder
    IN  [source      |-> source,
         dest        |-> Join(Join(base_dir, folder_name), file_name),
         folder_name |-> folder_name,
         file_name   |-> file_name]

\* The files handed to the planning functions (sorting.rs:316-382 call them
\* with paths that need not exist): a plain name, a name that is only a dot
\* and an extension, a name whose stem and one whose extension is not UTF-8,
\* a path that ends in "..", and a file that lies where its tags send it.
PlanSources ==
    { <<D, <<"s", ".", "x">> >>,
      <<D, <<".", "x">> >>,
      <<D, <<BadByte, ".", "x">> >>,
      <<D, <<"s", ".", BadByte>> >>,
      <<D, <<".", ".">> >>,
      <<M, <<"A", " ", "-", " ", "B">>, <<"T", ".", "x">> >> }

\* What lofty finds in a file: whether Probe::open and read succeed
\* (tags.rs:13), the tag chosen at tags.rs:15-17 if the file has one, and in
\* it the fields read at tags.rs:19-27, each there or not.
Tag(artist, album, title, track) ==
    [artist |-> artist, album |-> album, title |-> title, track |-> track]
Unreadable == [readable |-> FALSE, tag |-> None]
NoTag == [readable |-> TRUE, tag |-> None]
Tagged(tag) == [readable |-> TRUE, tag |-> Some(tag)]

\* Tags with artist and album: with a title, with an empty title and a track
\* number, with both and a three-digit number, with neither.  Two of them
\* are written like paths: an artist "../A", an album ".." and a title "/T".
GoodTags ==
    { Tag(Some(<<"A">>), Some(<<"B">>), Some(<<"T">>), None),
      Tag(Some(<<".", ".", "/", "A">>), Some(<<"B">>), Some(<<>>), Some(7)),
      Tag(Some(<<"A">>), Some(<<".", ".">>), Some(<<"/", "T">>), Some(123)),
      Tag(Some(<<"A">>), Some(<<"B">>), None, None) }

\* Tags whose artist or album is missing or empty.
BadTags ==
    { Tag(None, Some(<<"B">>), Some(<<"T">>), Some(7)),
      Tag(Some(<<>>), Some(<<"B">>), Some(<<"T">>), Some(7)),
      Tag(Some(<<"A">>), None, Some(<<"T">>), Some(7)),
      Tag(Some(<<"A">>), Some(<<>>), Some(<<"T">>), Some(7)) }

\* The scanned files (main.rs:129): each of the PlanSources unreadable or
\* with one of the GoodTags, and the plain one also without a tag or with
\* one of the BadTags.
ScannedFiles ==
    {[file |-> f, probe |-> t] :
        f \in PlanSources, t \in {Unreadable} \cup {Tagged(g) : g \in GoodTags}}
    \cup {[file |-> <<D, <<"s", ".", "x">> >>, probe |-> t] :
              t \in {NoTag} \cup {Tagged(g) : g \in BadTags}}

EmptyIsFine(str) == FALSE

\* tags.rs:22 String::is_empty
IsEmpty(str) == str = <<>>

\* tags.rs:12-35
read_tags(probe) ==
    IF ~probe.readable THEN None
    ELSE IF ~probe.tag.some THEN None
    ELSE LET tag == probe.tag.val
         IN  IF ~tag.artist.some THEN None
             ELSE IF ~tag.album.some THEN None
             ELSE IF IsEmpty(tag.artist.val) \/ IsEmpty(tag.album.val) THEN None
             ELSE Some(TrackMetadata(
                      tag.artist.val, tag.album.val,
                      IF tag.title.some /\ tag.title.val # <<>>
                      THEN tag.title ELSE None,
                      tag.track))

\* A batch: position k moves either a scanned file or a file that is
\* already at its destination; sources are distinct (main.rs:129 scans each
\* file once).
Batches ==
    LET Entry(k) == {PlannedMove(src, d) :
                        src \in {SourceOf(k), RemoteSourceOf(k)}, d \in PlannedDests}
                    \cup {PlannedMove(d, d) : d \in PlannedDests}
        OfLen(n) == {b \in [1..n -> UNION {Entry(k) : k \in 1..n}] :
                        /\ \A k \in 1..n : b[k] \in Entry(k)
                        /\ \A j, k \in 1..n : j # k => b[j].source # b[k].source}
    IN  UNION {OfLen(n) : n \in 1..MaxBatch}

\* The filesystem before the run: every source is a file with its own bytes,
\* `old` are files already in the destination directory, `dirs` the
\* directories that exist.
InitialDisk(b, old, dirs) ==
    [p \in AllPaths |->
        IF \E k \in 1..Len(b) : b[k].source = p
            THEN File(Content(CHOOSE k \in 1..Len(b) : b[k].source = p))
        ELSE IF p \in old THEN OldFile
        ELSE IF p \in dirs THEN Dir
        ELSE Absent]

\* main.rs:112-117: BaseDir is a directory, and so are the scanned
\* directories in it; the destination folder may be missing.
DirStates ==
    {{BaseDir, SrcDir, RemoteDir} \cup tree : tree \in {{}, {DestDir}}}

\* For a direct caller the destination tree may be missing, partly or wholly.
CallDirStates ==
    {{DownloadDir, RemoteDownloadDir} \cup tree :
        tree \in {{}, {BaseDir}, {BaseDir, DestDir}}}

NotStarted(b, fs) ==
    /\ raw = <<>>
    /\ moves = b
    /\ planned = b
    /\ disk = fs
    /\ claimed = {}
    /\ ri = 1
    /\ candidate = <<>>
    /\ counter = 1
    /\ gaveUp = {}
    /\ xi = 1
    /\ source_len = 0
    /\ bytes_copied = 0
    /\ rename_err = "none"
    /\ cleanup = "none"
    /\ result = [tag |-> "none", errno |-> ""]
    /\ atCall = fs
    /\ fallback = {}
    /\ results = <<>>
    /\ success = 0
    /\ errors = 0
    /\ extPlaced = {}
    /\ inputs = <<>>
    /\ sanitized = <<>>
    /\ resanitized = <<>>
    /\ first = None

\* main.rs:136-151: a scanned and planned batch, about to be resolved.
Init ==
    \E b \in Batches :
    \E old \in SUBSET (DestPaths \ {b[k].source : k \in 1..Len(b)}) :
    \E dirs \in DirStates :
        /\ (old # {} \/ \E k \in 1..Len(b) : b[k].source \in DestPaths)
              => DestDir \in dirs
        /\ NotStarted(b, InitialDisk(b, old, dirs))
        /\ pc = "rc_next"

\* A batch handed to resolve_conflicts as sorting.rs:384-404 hands one: every
\* entry asks for one of the GroupNames.
GroupBatches ==
    UNION {{b \in [1..n -> {PlannedMove(SourceOf(k), d) :
                                k \in 1..MaxGroup, d \in GroupDests}] :
               \A k \in 1..n : b[k].source = SourceOf(k)}
           : n \in 1..MaxGroup}

\* Such a batch about to be resolved; some of the names are files already.
InitGroup ==
    \E b \in GroupBatches :
    \E old \in SUBSET GroupDests :
        /\ NotStarted(b, InitialDisk(b, old, {BaseDir, DestDir, SrcDir, RemoteDir}))
        /\ pc = "rc_next"

\* As Init, on the disks that make the loop of resolve_conflicts run
\* longest: a suffixed name is taken only when the name it comes from and
\* the names with the smaller suffixes are taken.
InitTaken ==
    /\ Init
    /\ \A d \in PlannedDests : \A n \in 1..MAX_CONFLICT_ATTEMPTS :
          Exists(disk, Candidate(d, n)) =>
              /\ Exists(disk, d)
              /\ n > 1 => Exists(disk, Candidate(d, n - 1))

\* main.rs:136-151 with --execute: as Init, on a disk where none of the
\* suffixed names is taken yet.
InitRun ==
    /\ Init
    /\ \A p \in DestPaths \ PlannedDests : ~Exists(disk, p)

\* A direct call of execute_move (sorting.rs:419-483 call it so): one
\* PlannedMove, in place or not, whose source is there or not, and whose
\* destination is free, a file or a directory.
InitMove ==
    \E dest \in PlannedDests :
    \E source \in {DownloadFile, RemoteDownloadFile, dest} :
    \E srcThere \in BOOLEAN :
    \E destEntry \in {Absent, OldFile, Dir} :
    \E dirs \in CallDirStates :
        /\ source = dest => destEntry = Absent
        /\ (destEntry # Absent \/ (source = dest /\ srcThere))
              => DestDir \in dirs
        /\ NotStarted(<<PlannedMove(source, dest)>>,
                      [p \in AllPaths |->
                          IF p = source /\ srcThere THEN File(Content(1))
                          ELSE IF p = dest THEN destEntry
                          ELSE IF p \in dirs THEN Dir
                          ELSE Absent])
        /\ pc = "em_enter"

\* Before the planning loop of main.rs:134-149: no entry is planned yet, and
\* nothing lies where the plans will point.
InitPlan ==
    /\ NotStarted(<<>>, [p \in AllPaths |-> IF p = BaseDir THEN Dir ELSE Absent])
    /\ pc = "plan"

\* The characters the inputs of sanitize are written in: one or more of every
\* class sorting.rs:21-35 and 41-47 tell apart.
FullAlphabet ==
    {"/", "\\"} \cup DeletedChars
    \cup {"\t", "\n", " ", Nbsp, ".", "-", "_", "a", "C", "O", "N"}
CoreAlphabet == {" ", ".", "\t", ":", "/", "C", "O", "N", "c"}

Strings(alphabet, n) == UNION {[1..k -> alphabet] : k \in 0..n}

\* Inputs the tests of sanitize use (sorting.rs:257-314), and a few names
\* next to them.
TestInputs ==
    { <<"A","C","/","D","C">>,
      <<"B","a","c","k","\\","S","l","a","s","h">>,
      <<"W","h","a","t",":"," ","i","s"," ","*","t","h","i","s","?">>,
      <<"a","\"","b","<","c",">","d","|","e">>,
      <<"t","a","b","s","\t","h","e","r","e">>,
      <<" "," ","t","o","o"," "," "," ","m","a","n","y"," "," ">>,
      <<".",".","b","o","t","h",".",".">>,
      <<"*","*","*">>,
      <<"C","O","N">>, <<"c","o","n">>, <<"N","U","L">>, <<"P","R","N">>,
      <<"C","O","M","1">>, <<"L","P","T","9">>, <<"l","p","t","1">>,
      <<"C","O","N","N","E","C","T">>, <<"C","O","N","S","O","L","E">>,
      <<"C","O","M","1","0">>, <<"U","n","k","n","o","w","n">> }

SanitizeInputs ==
    Strings(CoreAlphabet, MaxLen) \cup Strings(FullAlphabet, MaxShort)
    \cup TestInputs

\* A call of sanitize on any of the inputs, about to be made.
InitSanitize ==
    /\ raw \in SanitizeInputs
    /\ moves = <<>>
    /\ planned = <<>>
    /\ disk = [p \in AllPaths |-> Absent]
    /\ claimed = {}
    /\ ri = 1
    /\ candidate = <<>>
    /\ counter = 1
    /\ gaveUp = {}
    /\ xi = 1
    /\ source_len = 0
    /\ bytes_copied = 0
    /\ rename_err = "none"
    /\ cleanup = "none"
    /\ result = [tag |-> "none", errno |-> ""]
    /\ atCall = disk
    /\ fallback = {}
    /\ results = <<>>
    /\ success = 0
    /\ errors = 0
    /\ extPlaced = {}
    /\ inputs = <<>>
    /\ sanitized = <<>>
    /\ resanitized = <<>>
    /\ first = None
    /\ pc = "sanitize"

sanitizeFrame == <<first, moves, disk, planned, extPlaced, inputs, resolveVars,
                   callVars, xi, results, success, errors>>

\* sorting.rs:17-50: the call returns.
Sanitize ==
    /\ pc = "sanitize"
    /\ sanitized' = sanitize(raw)
    /\ pc' = "sanitized"
    /\ UNCHANGED <<raw, resanitized, sanitizeFrame>>

\* sorting.rs:17-50, called on what it returned.
SanitizeAgain ==
    /\ pc = "sanitized"
    /\ resanitized' = sanitize(sanitized)
    /\ pc' = "resanitized"
    /\ UNCHANGED <<raw, sanitized, sanitizeFrame>>

\* ------------------------------------------------------------ planning
\* main.rs:136-149: one pass of the loop: the file's tags are read and the
\* entry is planned by compute_destination or, without tags, by
\* compute_unsorted_destination.
PlanFile ==
    /\ pc = "plan"
    /\ Len(moves) < MaxBatch
    /\ \E scanned \in ScannedFiles :
        LET file == scanned.file
            tags == read_tags(scanned.probe)
            m == IF tags.some
                 THEN compute_destination(BaseDir, file, tags.val)
                 ELSE compute_unsorted_destination(BaseDir, file)
        IN  /\ moves' = Append(moves, m)
            /\ planned' = Append(planned, m)
            /\ inputs' = Append(inputs, [file |-> file, tags |-> tags,
                                         probe |-> scanned.probe])
    /\ UNCHANGED <<disk, pc, extPlaced, xi, results, success, errors,
                   sanitizeVars, first>>
    /\ UNCHANGED <<resolveVars, callVars>>

\* main.rs:151: the loop is over, the batch goes to resolve_conflicts.
PlanEnd ==
    /\ pc = "plan"
    /\ Len(moves) > 0
    /\ pc' = "rc_next"
    /\ UNCHANGED <<moves, disk, planned, extPlaced>>
    /\ UNCHANGED <<resolveVars, callVars, mainVars>>

\* ------------------------------------------------------------ resolve_conflicts
\* No entry is taken to be in place.
NeverInPlace(m) == FALSE

\* sorting.rs:129: the entry is already at its destination.
AlreadyInPlace(m) == m.source = m.dest

\* sorting.rs:128-134: the head of the for loop; an entry already in place is
\* skipped, the loop's end returns to main.
ResolveNext ==
    /\ pc = "rc_next"
    /\ IF ri > Len(moves)
       THEN /\ pc' = "main_loop"
            /\ UNCHANGED <<ri, candidate, counter>>
       ELSE IF AlreadyInPlace(moves[ri])
       THEN /\ ri' = ri + 1
            /\ UNCHANGED <<pc, candidate, counter>>
       ELSE /\ candidate' = moves[ri].dest
            /\ counter' = 1
            /\ pc' = "rc_loop"
            /\ UNCHANGED ri
    /\ UNCHANGED <<moves, disk, claimed, gaveUp, planned, extPlaced>>
    /\ UNCHANGED <<callVars, mainVars>>

\* The while condition without its test of the claimed names.
CollidesOnDiskOnly(fs, taken, c) == Exists(fs, c)

\* The while condition without its disk test.
CollidesClaimedOnly(fs, taken, c) == c \in taken

\* sorting.rs:136: the while condition.
Collides(fs, taken, c) == Exists(fs, c) \/ c \in taken

\* The counter stands still.
NextCounterStuck(c) == Some(c)

\* The loop breaks one candidate early.
NextCounterShort(c) ==
    IF c + 1 < MAX_CONFLICT_ATTEMPTS THEN Some(c + 1) ELSE None

\* sorting.rs:157-164: Some(n) when the counter may advance, None at the break.
NextCounter(c) ==
    IF c + 1 <= MAX_CONFLICT_ATTEMPTS THEN Some(c + 1) ELSE None

\* The suffix is put on the last candidate.
SuffixBaseCandidate(m, c) == c

\* sorting.rs:137-149: stem, extension and parent are those of m.dest.
SuffixBase(m, c) == m.dest

\* The test takes the name it finds free.
ExistsCreates(fs, p) ==
    IF p \in DOMAIN fs /\ ~Exists(fs, p) THEN [fs EXCEPT ![p] = File(<<>>)]
    ELSE fs

\* sorting.rs:136 Path::exists: the disk after the test is the disk before.
AfterExists(fs, p) == fs

\* sorting.rs:136-165: one test of the while condition and one pass of its body.
ResolveLoop ==
    /\ pc = "rc_loop"
    /\ IF Collides(disk, claimed, candidate)
       THEN /\ candidate' = Candidate(SuffixBase(moves[ri], candidate), counter)
            /\ IF NextCounter(counter).some
               THEN /\ counter' = NextCounter(counter).val
                    /\ UNCHANGED <<pc, gaveUp>>
               ELSE /\ gaveUp' = gaveUp \cup {ri}
                    /\ pc' = "rc_commit"
                    /\ UNCHANGED counter
       ELSE /\ pc' = "rc_commit"
            /\ UNCHANGED <<candidate, counter, gaveUp>>
    /\ disk' = AfterExists(disk, candidate)
    /\ UNCHANGED <<moves, claimed, ri, planned, extPlaced>>
    /\ UNCHANGED <<callVars, mainVars>>

\* Only dest takes the final candidate.
RenamedDestOnly(m, c) == IF c # m.dest THEN [m EXCEPT !.dest = c] ELSE m

\* sorting.rs:167-174: the entry takes the final candidate.
Renamed(m, c) ==
    IF c # m.dest
    THEN [m EXCEPT !.file_name = UnwrapOr(AndThenToStr(FileName(c)),
                                          <<"u","n","k","n","o","w","n">>),
                   !.dest = c]
    ELSE m

\* The final candidate is not recorded.
ClaimNothing(taken, c) == taken

\* sorting.rs:176
Claim(taken, c) == taken \cup {c}

\* sorting.rs:167-177
ResolveCommit ==
    /\ pc = "rc_commit"
    /\ moves' = [moves EXCEPT ![ri] = Renamed(moves[ri], candidate)]
    /\ claimed' = Claim(claimed, candidate)
    /\ ri' = ri + 1
    /\ pc' = "rc_next"
    /\ UNCHANGED <<disk, candidate, counter, gaveUp, planned, extPlaced>>
    /\ UNCHANGED <<callVars, mainVars>>

\* The names claimed by the call before are still claimed.
StaleClaimed(taken) == taken

\* sorting.rs:126: every call starts with HashSet::new().
NewClaimed(taken) == {}

\* sorting.rs:125-127: resolve_conflicts is called again, on the batch as its
\* first call left it.
ResolveAgain ==
    /\ pc = "main_loop"
    /\ ~first.some
    /\ first' = Some([moves |-> moves, gaveUp |-> gaveUp])
    /\ claimed' = NewClaimed(claimed)
    /\ ri' = 1
    /\ gaveUp' = {}
    /\ pc' = "rc_next"
    /\ UNCHANGED <<moves, disk, planned, extPlaced, candidate, counter>>
    /\ UNCHANGED <<callVars, xi, results, success, errors, inputs,
                   sanitizeVars>>

\* ------------------------------------------------------------ filesystem calls
\* What a call returns: its errno ("" on success) and the filesystem after it.
\* "EIO" stands for every failure the environment may inject (permissions,
\* a full disk, a failing device); the other errnos follow from the state.
Outcome(errno, fs) == [errno |-> errno, fs |-> fs]

IsDir(fs, p) == fs[p].kind = "dir"
IsFile(fs, p) == fs[p].kind = "file"
ParentIsDir(fs, p) == IsDir(fs, UnwrapOr(Parent(p), <<>>))

\* The filesystem with every path of `dirs` a directory.
WithDirs(fs, dirs) == [q \in AllPaths |-> IF q \in dirs THEN Dir ELSE fs[q]]

\* dir and its ancestors.
DirChain(dir) == Ancestors(dir) \cup {dir}

\* fs::create_dir_all(dir): Ok when dir is a directory already; else every
\* missing directory of the chain is created, and a failure may leave the
\* outer part of the chain created.
CreateDirAll(fs, dir) ==
    IF IsDir(fs, dir) THEN {Outcome("", fs)}
    ELSE (IF \A q \in DirChain(dir) : ~IsFile(fs, q)
            THEN {Outcome("", WithDirs(fs, DirChain(dir)))}
            ELSE {Outcome("ENOTDIR", fs)})
         \cup {Outcome("EIO", WithDirs(fs, {q \in DirChain(dir) :
                                              Len(q) <= k /\ ~IsFile(fs, q)}))
                 : k \in 0..(Len(dir) - 1)}

\* rename(2) of a regular file: EXDEV across devices; on one device it is
\* atomic, and it replaces a file at `to`.
Rename(fs, from, to) ==
    (IF Device(from) # Device(to)
        THEN {Outcome("EXDEV", fs)}
     ELSE IF IsFile(fs, from) /\ ParentIsDir(fs, to) /\ ~IsDir(fs, to)
        THEN {Outcome("", [fs EXCEPT ![to] = fs[from], ![from] = Absent])}
        ELSE {Outcome(IF IsDir(fs, to) /\ IsFile(fs, from) THEN "EISDIR" ELSE "ENOENT", fs)})
    \cup {Outcome("EIO", fs)}

\* fs::metadata(p).len()
MetadataLen(fs, p) ==
    (IF Exists(fs, p) THEN {[errno |-> "", len |-> Len(fs[p].data)]}
                      ELSE {[errno |-> "ENOENT", len |-> 0]})
    \cup {[errno |-> "EIO", len |-> 0]}

\* fs::copy(from, to): opens `to` with create and truncate, then writes.  It
\* returns the bytes written; the copy may stop early, with an error or with
\* a short count, and leaves what it wrote.
Copy(fs, from, to) ==
    IF IsFile(fs, from) /\ ParentIsDir(fs, to) /\ ~IsDir(fs, to)
    THEN {[errno |-> "", n |-> Len(b), fs |-> [fs EXCEPT ![to] = File(b)]]
              : b \in Prefixes(fs[from].data)}
         \cup {[errno |-> "EIO", n |-> 0, fs |-> [fs EXCEPT ![to] = File(b)]]
              : b \in ProperPrefixes(fs[from].data)}
         \cup {[errno |-> "EIO", n |-> 0, fs |-> fs]}
    ELSE {[errno |-> IF IsDir(fs, to) /\ IsFile(fs, from) THEN "EISDIR" ELSE "ENOENT",
           n |-> 0, fs |-> fs],
          [errno |-> "EIO", n |-> 0, fs |-> fs]}

\* fs::remove_file(p)
RemoveFile(fs, p) ==
    (IF IsFile(fs, p) THEN {Outcome("", [fs EXCEPT ![p] = Absent])}
        ELSE {Outcome(IF IsDir(fs, p) THEN "EISDIR" ELSE "ENOENT", fs)})
    \cup {Outcome("EIO", fs)}

\* ------------------------------------------------------------ execute_move
\* Result<()>: Ok, or the error with the message's kind and the I/O errno.
\*   mkdir     "Failed to create directory"
\*   exists    "Destination already exists (appeared after planning)"
\*   move      "Failed to move"
\*   metadata  "Failed to read source metadata"
\*   copy      "Failed to copy"
\*   verify    "Copy verification failed"
\*   remove    "Failed to remove source"
Ok == [tag |-> "ok", errno |-> ""]
Err(tag, errno) == [tag |-> tag, errno |-> errno]
Skipped == [tag |-> "skip", errno |-> ""]
Pending == [tag |-> "none", errno |-> ""]

cur == moves[xi]

Return(r) ==
    /\ result' = r
    /\ pc' = "em_ret"

\* What no step of execute_move changes.
callFrame == <<moves, planned, extPlaced, atCall, claimed, ri, candidate,
               counter, gaveUp, xi, results, success, errors, inputs,
               sanitizeVars, first>>

\* The fast path is never taken.
NoFastPath(m) == FALSE

\* sorting.rs:184: the condition of the no-op fast path.
IsNoOp(m) == m.source = m.dest

\* Only the directory above the parent is created.
DirToCreateOuter(m) == Parent(UnwrapOr(Parent(m.dest), <<>>))

\* sorting.rs:188: the directory execute_move creates.
DirToCreate(m) == Parent(m.dest)

\* sorting.rs:183-191: the no-op fast path, then create_dir_all(parent).
ExecuteMoveCreateDirs ==
    /\ pc = "em_enter"
    /\ IF IsNoOp(cur)
       THEN /\ Return(Ok)
            /\ UNCHANGED disk
       ELSE IF ~DirToCreate(cur).some
       THEN /\ pc' = "em_check"
            /\ UNCHANGED <<disk, result>>
       ELSE \E o \in CreateDirAll(disk, DirToCreate(cur).val) :
            /\ disk' = o.fs
            /\ IF o.errno = ""
               THEN pc' = "em_check" /\ UNCHANGED result
               ELSE Return(Err("mkdir", o.errno))
    /\ UNCHANGED <<source_len, bytes_copied, rename_err, cleanup, fallback>>
    /\ UNCHANGED callFrame

\* The re-check is left out.
NeverOccupied(fs, m) == FALSE

\* sorting.rs:194: the re-check at move time.
DestOccupied(fs, m) == Exists(fs, m.dest)

\* sorting.rs:193-199
ExecuteMoveCheck ==
    /\ pc = "em_check"
    /\ IF DestOccupied(disk, cur)
       THEN Return(Err("exists", ""))
       ELSE pc' = "em_rename" /\ UNCHANGED result
    /\ UNCHANGED <<disk, source_len, bytes_copied, rename_err, cleanup, fallback>>
    /\ UNCHANGED callFrame

\* Every rename error is taken for a cross-device error.
AnyErrorIsCrossDevice(errno) == TRUE

\* sorting.rs:205-208
IsCrossDevice(errno) == errno = "EXDEV"

\* sorting.rs:201-217
ExecuteMoveRename ==
    /\ pc = "em_rename"
    /\ \E o \in Rename(disk, cur.source, cur.dest) :
        /\ disk' = o.fs
        /\ rename_err' = o.errno
        /\ IF o.errno = ""
           THEN Return(Ok) /\ UNCHANGED fallback
           ELSE IF ~IsCrossDevice(o.errno)
           THEN Return(Err("move", o.errno)) /\ UNCHANGED fallback
           ELSE /\ pc' = "em_metadata"
                /\ fallback' = fallback \cup {xi}
                /\ UNCHANGED result
    /\ UNCHANGED <<source_len, bytes_copied, cleanup>>
    /\ UNCHANGED callFrame

\* sorting.rs:219-223
ExecuteMoveMetadata ==
    /\ pc = "em_metadata"
    /\ \E o \in MetadataLen(disk, cur.source) :
        IF o.errno = ""
        THEN /\ source_len' = o.len
             /\ pc' = "em_copy"
             /\ UNCHANGED result
        ELSE /\ Return(Err("metadata", o.errno))
             /\ UNCHANGED source_len
    /\ UNCHANGED <<disk, bytes_copied, rename_err, cleanup, fallback>>
    /\ UNCHANGED callFrame

\* sorting.rs:225-231
ExecuteMoveCopy ==
    /\ pc = "em_copy"
    /\ \E o \in Copy(disk, cur.source, cur.dest) :
        /\ disk' = o.fs
        /\ IF o.errno = ""
           THEN /\ bytes_copied' = o.n
                /\ pc' = "em_verify"
                /\ UNCHANGED result
           ELSE /\ Return(Err("copy", o.errno))
                /\ UNCHANGED bytes_copied
    /\ UNCHANGED <<source_len, rename_err, cleanup, fallback>>
    /\ UNCHANGED callFrame

\* The byte counts are not compared.
AlwaysVerified(copied, len) == TRUE

\* sorting.rs:233
Verified(copied, len) == copied = len

\* The source is removed in place of the copy.
CleanupSource(m) == m.source

\* sorting.rs:235: the file removed when verification fails.
CleanupTarget(m) == m.dest

\* sorting.rs:233-242: the removal's own failure is discarded (let _ =).
ExecuteMoveVerify ==
    /\ pc = "em_verify"
    /\ IF ~Verified(bytes_copied, source_len)
       THEN \E o \in RemoveFile(disk, CleanupTarget(cur)) :
                /\ disk' = o.fs
                /\ cleanup' = o.errno
                /\ Return(Err("verify", ""))
       ELSE /\ pc' = "em_remove"
            /\ UNCHANGED <<disk, result, cleanup>>
    /\ UNCHANGED <<source_len, bytes_copied, rename_err, fallback>>
    /\ UNCHANGED callFrame

\* sorting.rs:244-247
ExecuteMoveRemoveSource ==
    /\ pc = "em_remove"
    /\ \E o \in RemoveFile(disk, cur.source) :
        /\ disk' = o.fs
        /\ IF o.errno = "" THEN Return(Ok) ELSE Return(Err("remove", o.errno))
    /\ UNCHANGED <<source_len, bytes_copied, rename_err, cleanup, fallback>>
    /\ UNCHANGED callFrame

\* ------------------------------------------------------------ main
\* main.rs:222-227: the head of the execution loop; an entry already in place
\* is skipped, any other is passed to execute_move.
MainLoop ==
    /\ pc = "main_loop"
    /\ IF xi > Len(moves)
       THEN /\ pc' = "done"
            /\ UNCHANGED <<xi, results, atCall, result, source_len,
                           bytes_copied, rename_err, cleanup>>
       ELSE IF cur.source = cur.dest
       THEN /\ xi' = xi + 1
            /\ results' = Append(results, Skipped)
            /\ UNCHANGED <<pc, atCall, result, source_len, bytes_copied,
                           rename_err, cleanup>>
       ELSE /\ pc' = "em_enter"
            /\ atCall' = disk
            /\ result' = Pending
            /\ source_len' = 0
            /\ bytes_copied' = 0
            /\ rename_err' = "none"
            /\ cleanup' = "none"
            /\ UNCHANGED <<xi, results>>
    /\ UNCHANGED <<moves, disk, planned, extPlaced, fallback, success, errors,
                   inputs, sanitizeVars, first>>
    /\ UNCHANGED resolveVars

\* The loop ends at the first error.
AfterCallStopAtError(r) == IF r.tag = "ok" THEN "main_loop" ELSE "done"

\* main.rs:227-241: neither arm of the match leaves the loop.
AfterCall(r) == "main_loop"

\* main.rs:227-241: the call returned; count it and go on with the next entry.
MainCount ==
    /\ pc = "em_ret"
    /\ results' = Append(results, result)
    /\ IF result = Ok
       THEN success' = success + 1 /\ UNCHANGED errors
       ELSE errors' = errors + 1 /\ UNCHANGED success
    /\ xi' = xi + 1
    /\ pc' = AfterCall(result)
    /\ UNCHANGED <<moves, disk, planned, extPlaced, inputs, sanitizeVars, first>>
    /\ UNCHANGED <<resolveVars, callVars>>

\* ------------------------------------------------------------ environment
Executing ==
    pc \in {"main_loop", "em_enter", "em_check", "em_rename", "em_metadata",
            "em_copy", "em_verify", "em_remove"}

\* Another process creates a file or a directory at the destination of the
\* entry that is about to move or is moving, where nothing is yet.
ExternalCreate ==
    /\ Executing
    /\ xi <= Len(moves)
    /\ cur.source # cur.dest
    /\ Cardinality(extPlaced) < MaxExternal
    /\ ~Exists(disk, cur.dest)
    /\ \E e \in {ExtFile, Dir} :
        /\ disk' = [WithDirs(disk, Ancestors(cur.dest)) EXCEPT ![cur.dest] = e]
        /\ extPlaced' = extPlaced \cup {[path |-> cur.dest, entry |-> e]}
    /\ UNCHANGED <<moves, planned, pc>>
    /\ UNCHANGED <<resolveVars, callVars, mainVars>>

\* ------------------------------------------------------------ specifications
NextResolve ==
    \/ ResolveNext
    \/ ResolveLoop
    \/ ResolveCommit

NextMove ==
    \/ ExecuteMoveCreateDirs
    \/ ExecuteMoveCheck
    \/ ExecuteMoveRename
    \/ ExecuteMoveMetadata
    \/ ExecuteMoveCopy
    \/ ExecuteMoveVerify
    \/ ExecuteMoveRemoveSource
    \/ ExternalCreate

Next ==
    \/ NextResolve
    \/ MainLoop
    \/ MainCount
    \/ NextMove

\* resolve_conflicts over a planned batch.
SpecResolve == Init /\ [][NextResolve]_vars
\* resolve_conflicts is one uninterrupted call (main.rs:151): whenever it
\* has a step to take, it takes it.
FairSpecResolve == InitTaken /\ [][NextResolve]_vars /\ WF_vars(NextResolve)

\* One call of execute_move, with the external process.
SpecMove == InitMove /\ [][NextMove]_vars

\* main: resolve the batch, then execute it.
Spec == Init /\ [][Next]_vars

NextRun ==
    \/ ResolveNext
    \/ ResolveLoop
    \/ ResolveCommit
    \/ MainLoop
    \/ MainCount
    \/ ExecuteMoveCreateDirs
    \/ ExecuteMoveCheck
    \/ ExecuteMoveRename
    \/ ExecuteMoveMetadata
    \/ ExecuteMoveCopy
    \/ ExecuteMoveVerify
    \/ ExecuteMoveRemoveSource

\* A run of main with --execute in a tree that no other process touches.
SpecRun == InitRun /\ [][NextRun]_vars

\* resolve_conflicts over a batch of GroupBatches.
SpecGroup == InitGroup /\ [][NextResolve]_vars

NextPlan ==
    \/ PlanFile
    \/ PlanEnd
    \/ NextResolve

\* The planning functions applied to files and tags, and resolve_conflicts
\* over the batch they planned.
SpecPlan == InitPlan /\ [][NextPlan]_vars

NextResolveTwice == NextResolve \/ ResolveAgain
SpecResolveTwice == Init /\ [][NextResolveTwice]_vars

NextSanitize == Sanitize \/ SanitizeAgain
SpecSanitize == InitSanitize /\ [][NextSanitize]_vars

\* ------------------------------------------------------------ properties
\* resolve_conflicts has returned to main.
ResolveReturned == pc = "main_loop"

\* C1: after resolve_conflicts over a batch whose sources are distinct
\* existing files, on any disk state, with no entry leaving through the
\* ceiling's break, no two entries of the batch have the same dest.
C1_DestsPairwiseDistinct ==
    (ResolveReturned /\ gaveUp = {}) =>
        \A i, j \in 1..Len(moves) : i # j => moves[i].dest # moves[j].dest

\* Two entries planned the same dest and were told apart.
C1_Witness ==
    /\ ResolveReturned
    /\ gaveUp = {}
    /\ \E i, j \in 1..Len(moves) :
        /\ i # j
        /\ planned[i].dest = planned[j].dest
        /\ moves[i].dest # moves[j].dest

\* C2 as stated: after resolve_conflicts (no entry at the ceiling) no entry's
\* dest is a path that was on disk at resolution time.  The disk does not
\* change while resolve_conflicts runs, so `disk` is the disk of that time.
C2_NoDestOnDisk ==
    (ResolveReturned /\ gaveUp = {}) =>
        \A i \in 1..Len(moves) : ~Exists(disk, moves[i].dest)

\* C2 amended: the same for every entry that is not already in place
\* (source # dest); an entry in place keeps its dest, which is its own file.
C2_MovedDestsNotOnDisk ==
    (ResolveReturned /\ gaveUp = {}) =>
        \A i \in 1..Len(moves) :
            moves[i].source # moves[i].dest => ~Exists(disk, moves[i].dest)

\* An entry whose planned dest was on disk got another one.
C2_Witness ==
    /\ ResolveReturned
    /\ gaveUp = {}
    /\ \E i \in 1..Len(moves) :
        /\ planned[i].source # planned[i].dest
        /\ Exists(disk, planned[i].dest)
        /\ moves[i].dest # planned[i].dest

\* C11: resolve_conflicts leaves every entry whose source equals its dest as
\* it was planned (source, dest, folder_name and file_name), at every point of
\* its run, on any disk and whatever the entries before it claimed.
C11_InPlaceEntryUnchanged ==
    \A i \in 1..Len(moves) :
        planned[i].source = planned[i].dest => moves[i] = planned[i]

\* resolve_conflicts returned over a batch in which an entry in place stands
\* behind an entry that planned the same path and had to take another one.
C11_Witness ==
    /\ ResolveReturned
    /\ \E i, j \in 1..Len(moves) :
        /\ j < i
        /\ planned[i].source = planned[i].dest
        /\ planned[j].dest = planned[i].dest
        /\ moves[j].dest # planned[j].dest
        /\ moves[i] = planned[i]

\* execute_move has returned; the entry it was called with is cur.
Returned == pc = "em_ret"
Moving == cur.source # cur.dest
ExternalAtDest == \E e \in extPlaced : e.path = cur.dest

\* C3 as stated: a file the external process created at dest, at whatever
\* moment, is never replaced or destroyed by execute_move.
C3_ExternalFileKept ==
    \A e \in extPlaced : e.entry = ExtFile => disk[e.path] = ExtFile

\* C4: in the cross-device fallback the size is recorded before the copy, the
\* source is removed only after the byte counts were compared and found
\* equal, and whenever the source is gone dest holds all of its bytes.
C4_SourceRemovedAfterVerifiedCopy ==
    (xi \in fallback /\ IsFile(atCall, cur.source)) =>
        /\ pc \in {"em_copy", "em_verify", "em_remove"} =>
              source_len = Len(atCall[cur.source].data)
        /\ pc = "em_remove" =>
              /\ bytes_copied = source_len
              /\ disk[cur.dest] = atCall[cur.source]
        /\ disk[cur.source] # atCall[cur.source] =>
              /\ Returned
              /\ result = Ok
              /\ disk[cur.dest] = atCall[cur.source]

\* The fallback ran to its end: the source is gone.
C4_Witness ==
    /\ xi \in fallback
    /\ Returned
    /\ result = Ok
    /\ IsFile(atCall, cur.source)
    /\ ~Exists(disk, cur.source)

\* C5: whenever execute_move returns an error, the source file is at its
\* path with the bytes it had when execute_move was called.
C5_ErrorKeepsSource ==
    (Returned /\ result # Ok /\ IsFile(atCall, cur.source)) =>
        disk[cur.source] = atCall[cur.source]

\* The last step that can fail, the removal of the source, failed.
C5_Witness ==
    /\ Returned
    /\ result.tag = "remove"
    /\ IsFile(atCall, cur.source)

\* C6 as stated: whenever execute_move returns an error, no file is at dest
\* that was not there before the call (the external process aside).
C6_NoNewFileAtDestOnError ==
    (Returned /\ result # Ok /\ ~Exists(atCall, cur.dest) /\ ~ExternalAtDest) =>
        ~Exists(disk, cur.dest)

\* C7: when dest is occupied (a file or a directory) as execute_move is
\* called and source # dest, the call returns the "already exists" error
\* without a rename or a copy, and source and dest are as they were.
C7_OccupiedDestRefused ==
    (Moving /\ Exists(atCall, cur.dest)) =>
        /\ pc \in {"em_enter", "em_check", "em_ret"}
        /\ rename_err = "none"
        /\ xi \notin fallback
        /\ disk = atCall
        /\ Returned => result = Err("exists", "")

\* The call found a file at dest and refused.
C7_Witness ==
    /\ Returned
    /\ Moving
    /\ IsFile(atCall, cur.source)
    /\ atCall[cur.dest] = OldFile
    /\ result = Err("exists", "")

C9_OnlyCrossDeviceFallsBack ==
    /\ xi \in fallback => rename_err = "EXDEV"
    /\ rename_err \notin {"none", "", "EXDEV"} =>
          /\ Returned
          /\ result = Err("move", rename_err)
          /\ xi \notin fallback
          /\ source_len = 0
          /\ bytes_copied = 0
          /\ disk[cur.source] = atCall[cur.source]
          /\ disk[cur.dest] = atCall[cur.dest] \/ ExternalAtDest

\* The rename failed for another reason than EXDEV.
C9_Witness ==
    /\ Returned
    /\ rename_err = "EIO"
    /\ IsFile(atCall, cur.source)

\* C10: a call with source # dest that returns Ok has created every
\* ancestor directory of dest, the source is gone and dest holds the bytes
\* the source had; and a call whose source is a file and whose dest is free,
\* with no failing filesystem call, no short copy and no external process,
\* returns Ok.
C10_MoveSucceeds ==
    (Returned /\ Moving) =>
        /\ result = Ok =>
              /\ IsFile(atCall, cur.source)
              /\ ~Exists(disk, cur.source)
              /\ disk[cur.dest] = atCall[cur.source]
              /\ \A a \in Ancestors(cur.dest) : IsDir(disk, a)
        /\ (/\ IsFile(atCall, cur.source)
            /\ ~Exists(atCall, cur.dest)
            /\ extPlaced = {}
            /\ result.errno # "EIO"
            /\ result.tag # "verify") => result = Ok

\* A move over the copy path into a tree of which nothing existed.
C10_Witness ==
    /\ Returned
    /\ Moving
    /\ result = Ok
    /\ xi \in fallback
    /\ ~Exists(atCall, BaseDir)
    /\ ~Exists(atCall, cur.dest)

\* C12: a call of execute_move with source equal to dest returns Ok in its
\* first step and leaves the filesystem as it is: it takes none of the steps
\* that create directories, test the destination or rename.
C12_InPlaceCallIsNoOp ==
    [][(pc = "em_enter" /\ cur.source = cur.dest) =>
           (pc' = "em_ret" /\ result' = Ok /\ disk' = disk)]_vars

\* Such a call returned Ok for a path that does not exist, of which not even
\* the directory exists.
C12_Witness ==
    /\ Returned
    /\ cur.source = cur.dest
    /\ result = Ok
    /\ ~Exists(disk, cur.dest)
    /\ ~Exists(disk, DestDir)
    /\ disk = atCall

\* C13 as stated: when resolve_conflicts has returned, for every planned dest
\* d that, with its suffixed variants, is absent from disk and not planned by
\* an entry that did not plan d, the first entry that planned d has dest d and
\* its planned file_name, and the i-th (i >= 2) has the candidate built from d
\* with the suffix i-1, as dest and as file_name.
C13_GroupSuffixedInOrder ==
    ResolveReturned =>
        \A g \in 1..Len(planned) :
            LET d == planned[g].dest
                G == {i \in 1..Len(planned) : planned[i].dest = d}
                Variants == {d} \cup {Candidate(d, n) : n \in 1..MAX_CONFLICT_ATTEMPTS}
                Rank(i) == Cardinality({j \in G : j <= i})
            IN  (/\ \A p \in Variants : ~Exists(disk, p)
                 /\ \A j \in 1..Len(planned) : j \notin G => planned[j].dest \notin Variants)
                =>
                \A i \in G :
                    IF Rank(i) = 1
                    THEN moves[i] = planned[i]
                    ELSE /\ moves[i].dest = Candidate(d, Rank(i) - 1)
                         /\ moves[i].file_name = SuffixedName(d, Rank(i) - 1)

\* C13 amended: the same when, besides, no entry that did not plan d ends
\* with d or one of its variants as dest, and the entries that planned d are
\* at most one more than the ceiling.
C13_GroupSuffixedInOrderAlone ==
    ResolveReturned =>
        \A g \in 1..Len(planned) :
            LET d == planned[g].dest
                G == {i \in 1..Len(planned) : planned[i].dest = d}
                Variants == {d} \cup {Candidate(d, n) : n \in 1..MAX_CONFLICT_ATTEMPTS}
                Rank(i) == Cardinality({j \in G : j <= i})
            IN  (/\ \A p \in Variants : ~Exists(disk, p)
                 /\ \A j \in 1..Len(planned) : j \notin G => planned[j].dest \notin Variants
                 /\ \A j \in 1..Len(moves) : j \notin G => moves[j].dest \notin Variants
                 /\ Cardinality(G) - 1 <= MAX_CONFLICT_ATTEMPTS)
                =>
                \A i \in G :
                    IF Rank(i) = 1
                    THEN moves[i] = planned[i]
                    ELSE /\ moves[i].dest = Candidate(d, Rank(i) - 1)
                         /\ moves[i].file_name = SuffixedName(d, Rank(i) - 1)

\* Three entries planned one name with an extension, on a disk that has
\* neither it nor its variants: they got the name, " (1)" and " (2)" before
\* the extension.
C13_Witness ==
    /\ ResolveReturned
    /\ \E i, j, k \in 1..Len(moves) :
        /\ i < j /\ j < k
        /\ planned[i].dest = planned[j].dest
        /\ planned[j].dest = planned[k].dest
        /\ UnwrapOr(Extension(planned[i].dest), <<>>) # <<>>
        /\ \A n \in 1..MAX_CONFLICT_ATTEMPTS :
              ~Exists(disk, Candidate(planned[i].dest, n))
        /\ moves[i].dest = planned[i].dest
        /\ moves[j].file_name = <<"a", " ", "(", "1", ")", ".", "x">>
        /\ moves[k].file_name = <<"a", " ", "(", "2", ")", ".", "x">>

\* C14: when resolve_conflicts has returned, every entry (not in place) whose
\* planned dest and whose candidates with the suffixes below the ceiling all
\* collided, with the disk or with the dest of an earlier entry, has for dest
\* and file_name the candidate with the ceiling as suffix, free or not; that
\* dest is in the claimed set, and the entries behind it were resolved too.
C14_ExhaustionKeepsLastCandidate ==
    ResolveReturned =>
        \A i \in 1..Len(moves) :
            LET d == planned[i].dest
                Taken(p) ==
                    \/ Exists(disk, p)
                    \/ \E j \in 1..(i - 1) :
                          planned[j].source # planned[j].dest /\ moves[j].dest = p
            IN  (/\ planned[i].source # d
                 /\ Taken(d)
                 /\ \A n \in 1..(MAX_CONFLICT_ATTEMPTS - 1) : Taken(Candidate(d, n)))
                =>
                (/\ moves[i].dest = Candidate(d, MAX_CONFLICT_ATTEMPTS)
                 /\ moves[i].file_name = SuffixedName(d, MAX_CONFLICT_ATTEMPTS)
                 /\ moves[i].dest \in claimed
                 /\ \A j \in (i + 1)..Len(moves) :
                       planned[j].source # planned[j].dest => moves[j].dest \in claimed)

\* An entry left the loop through the break with a last candidate that is a
\* file on disk, and an entry behind it was resolved.
C14_Witness ==
    /\ ResolveReturned
    /\ \E i \in gaveUp :
        /\ i < Len(moves)
        /\ moves[i].dest = Candidate(planned[i].dest, MAX_CONFLICT_ATTEMPTS)
        /\ Exists(disk, moves[i].dest)
        /\ planned[i + 1].source # planned[i + 1].dest
        /\ moves[i + 1].dest \in claimed

\* C15: every entry of the batch, as compute_destination or
\* compute_unsorted_destination made it and as resolve_conflicts left it, has
\* dest = base_dir / folder_name / file_name: dest lies two components below
\* base_dir, file_name is its last component and folder_name the one before.
C15_DestIsBaseFolderFile ==
    \A i \in 1..Len(moves) :
        moves[i].dest = BaseDir \o <<moves[i].folder_name, moves[i].file_name>>

\* resolve_conflicts returned over a batch in which it renamed an entry that
\* compute_destination had planned.
C15_Witness ==
    /\ ResolveReturned
    /\ \E k \in 1..Len(moves) :
        /\ inputs[k].tags.some
        /\ moves[k].dest # planned[k].dest
        /\ moves[k].file_name # planned[k].file_name

\* C16: in every state of a run, the entries before the loop's position have
\* one result each, in batch order: an entry in place was skipped, every
\* other was passed to execute_move and its result counted, so success +
\* errors is the number of entries with source # dest that the loop has
\* passed; and when the loop has ended it has passed the whole batch,
\* whatever failed.
C16_AllEntriesAttemptedAndCounted ==
    /\ Len(results) = xi - 1
    /\ \A i \in 1..Len(results) :
          (results[i].tag = "skip") <=> (moves[i].source = moves[i].dest)
    /\ success = Cardinality({i \in 1..Len(results) : results[i].tag = "ok"})
    /\ errors = Cardinality({i \in 1..Len(results) :
                                results[i].tag \notin {"ok", "skip"}})
    /\ success + errors =
          Cardinality({i \in 1..Len(results) : moves[i].source # moves[i].dest})
    /\ pc = "done" => Len(results) = Len(moves)

\* The run ended with an entry that failed and a later entry that was moved.
C16_Witness ==
    /\ pc = "done"
    /\ \E i, j \in 1..Len(results) :
        /\ i < j
        /\ results[i].tag \notin {"ok", "skip"}
        /\ results[j].tag = "ok"
    /\ errors >= 1
    /\ success >= 1

\* C17: in a run in which no entry left resolve_conflicts through the
\* ceiling's break (and no other process touches the tree), whenever
\* execute_move is at its re-check the dest of its entry is absent.
C17_RecheckFindsDestFree ==
    (gaveUp = {} /\ pc = "em_check") => ~Exists(disk, cur.dest)

\* The re-check of an entry that resolve_conflicts renamed, after the entry
\* that kept the name was moved.
C17_Witness ==
    /\ pc = "em_check"
    /\ gaveUp = {}
    /\ \E i \in 1..(xi - 1) :
        /\ results[i].tag = "ok"
        /\ planned[i].dest = planned[xi].dest
        /\ moves[i].dest = planned[i].dest
    /\ cur.dest # planned[xi].dest
    /\ ~Exists(disk, cur.dest)

\* C18 as stated: for every file and tags, compute_destination returns the
\* source unchanged, folder_name = sanitize(artist) + " - " + sanitize(album),
\* a file_name that begins with the track number in at least two digits and
\* " - " when there is a track number, ends with "." and the text after the
\* last dot of the source's name, has sanitize(title) between them when there
\* is a title, and dest = base_dir / folder_name / file_name.
C18_PlannedFromTags ==
    \A i \in 1..Len(planned) :
        inputs[i].tags.some =>
            LET src == inputs[i].file
                meta == inputs[i].tags.val
                pm == planned[i]
                ext == AfterLastDot(UnwrapOr(FileName(src), <<>>))
                digits == Decimal(meta.track_number.val)
                number == IF Len(digits) < 2 THEN <<"0">> \o digits ELSE digits
                prefix == IF meta.track_number.some
                          THEN number \o <<" ", "-", " ">> ELSE <<>>
                tail == <<".">> \o ext
                f == pm.file_name
            IN  /\ pm.source = src
                /\ pm.folder_name =
                     sanitize(meta.artist) \o <<" ", "-", " ">> \o sanitize(meta.album)
                /\ Len(f) > Len(prefix) + Len(tail)
                /\ SubSeq(f, 1, Len(prefix)) = prefix
                /\ SubSeq(f, Len(f) - Len(tail) + 1, Len(f)) = tail
                /\ meta.title.some => f = prefix \o sanitize(meta.title.val) \o tail
                /\ pm.dest = BaseDir \o <<pm.folder_name, f>>

\* C18 amended: the same, where ext is the text after the last dot of the
\* source's name when that text is valid UTF-8, and is empty when it is not.
C18_PlannedFromTagsUtf8Ext ==
    \A i \in 1..Len(planned) :
        inputs[i].tags.some =>
            LET src == inputs[i].file
                meta == inputs[i].tags.val
                pm == planned[i]
                after == AfterLastDot(UnwrapOr(FileName(src), <<>>))
                ext == IF ToStr(after).some THEN after ELSE <<>>
                digits == Decimal(meta.track_number.val)
                number == IF Len(digits) < 2 THEN <<"0">> \o digits ELSE digits
                prefix == IF meta.track_number.some
                          THEN number \o <<" ", "-", " ">> ELSE <<>>
                tail == <<".">> \o ext
                f == pm.file_name
            IN  /\ pm.source = src
                /\ pm.folder_name =
                     sanitize(meta.artist) \o <<" ", "-", " ">> \o sanitize(meta.album)
                /\ Len(f) > Len(prefix) + Len(tail)
                /\ SubSeq(f, 1, Len(prefix)) = prefix
                /\ SubSeq(f, Len(f) - Len(tail) + 1, Len(f)) = tail
                /\ meta.title.some => f = prefix \o sanitize(meta.title.val) \o tail
                /\ pm.dest = BaseDir \o <<pm.folder_name, f>>

\* Entries were planned with a one-digit and with a three-digit track number,
\* with an artist that sanitize changes, and from a source whose extension is
\* not UTF-8.
C18_Witness ==
    \E i, j \in 1..Len(planned) :
        /\ inputs[i].tags.some
        /\ inputs[i].tags.val.track_number = Some(7)
        /\ sanitize(inputs[i].tags.val.artist) # inputs[i].tags.val.artist
        /\ inputs[j].tags.some
        /\ inputs[j].tags.val.track_number = Some(123)
        /\ inputs[j].tags.val.title.some
        /\ ~ToStr(AfterLastDot(inputs[j].file[Len(inputs[j].file)])).some

\* C19 as stated: the title component of the file_name compute_destination
\* returns (what stands between the track prefix and the last dot) is
\* sanitize(title) when the tags have a title, and the stem of the source's
\* name, as it is, when they have none.
C19_TitleOrStem ==
    \A i \in 1..Len(planned) :
        inputs[i].tags.some =>
            LET src == inputs[i].file
                meta == inputs[i].tags.val
                f == planned[i].file_name
                skip == IF meta.track_number.some
                        THEN Len(Pad2(meta.track_number.val)) + 3 ELSE 0
                title == SubSeq(f, skip + 1, LastDot(f) - 1)
            IN  IF meta.title.some
                THEN title = sanitize(meta.title.val)
                ELSE FileStem(src).some /\ title = FileStem(src).val

\* C19 amended: without a title the component is the stem of the source's
\* name, as it is, when the source has a stem that is valid UTF-8, and
\* "Unknown" when it has not.
C19_TitleOrUtf8Stem ==
    \A i \in 1..Len(planned) :
        inputs[i].tags.some =>
            LET src == inputs[i].file
                meta == inputs[i].tags.val
                f == planned[i].file_name
                skip == IF meta.track_number.some
                        THEN Len(Pad2(meta.track_number.val)) + 3 ELSE 0
                title == SubSeq(f, skip + 1, LastDot(f) - 1)
                stem == FileStem(src)
            IN  IF meta.title.some
                THEN title = sanitize(meta.title.val)
                ELSE IF stem.some /\ ToStr(stem.val).some
                THEN title = stem.val
                ELSE title = <<"U","n","k","n","o","w","n">>

\* Entries were planned without a title from a source whose stem sanitize
\* would change, and from a source whose stem is not UTF-8.
C19_Witness ==
    \E i, j \in 1..Len(planned) :
        /\ inputs[i].tags.some
        /\ ~inputs[i].tags.val.title.some
        /\ FileStem(inputs[i].file).some
        /\ ToStr(FileStem(inputs[i].file).val).some
        /\ sanitize(FileStem(inputs[i].file).val) # FileStem(inputs[i].file).val
        /\ inputs[j].tags.some
        /\ ~inputs[j].tags.val.title.some
        /\ FileStem(inputs[j].file).some
        /\ ~ToStr(FileStem(inputs[j].file).val).some

\* C20 as stated: for every file without tags compute_unsorted_destination
\* returns folder_name "_Unsorted", file_name equal to the last component of
\* the source, and dest = base_dir / "_Unsorted" / file_name.
C20_UnsortedKeepsName ==
    \A i \in 1..Len(planned) :
        ~inputs[i].tags.some =>
            LET src == inputs[i].file
                pm == planned[i]
            IN  /\ pm.folder_name = <<"_","U","n","s","o","r","t","e","d">>
                /\ pm.file_name = src[Len(src)]
                /\ pm.dest = BaseDir \o <<pm.folder_name, pm.file_name>>

\* C20 amended: file_name is the last component of the source when that is a
\* file name (not "..") in valid UTF-8, and "unknown" when it is not.
C20_UnsortedKeepsUtf8Name ==
    \A i \in 1..Len(planned) :
        ~inputs[i].tags.some =>
            LET src == inputs[i].file
                pm == planned[i]
                last == src[Len(src)]
            IN  /\ pm.folder_name = <<"_","U","n","s","o","r","t","e","d">>
                /\ pm.file_name =
                     IF last # <<".", ".">> /\ ToStr(last).some
                     THEN last ELSE <<"u","n","k","n","o","w","n">>
                /\ pm.dest = BaseDir \o <<pm.folder_name, pm.file_name>>

\* Entries were planned without tags from a source whose name sanitize would
\* change, and from a source whose name is not UTF-8.
C20_Witness ==
    \E i, j \in 1..Len(planned) :
        /\ ~inputs[i].tags.some
        /\ ToStr(inputs[i].file[Len(inputs[i].file)]).some
        /\ sanitize(inputs[i].file[Len(inputs[i].file)]) # inputs[i].file[Len(inputs[i].file)]
        /\ planned[i].file_name = inputs[i].file[Len(inputs[i].file)]
        /\ ~inputs[j].tags.some
        /\ ~ToStr(inputs[j].file[Len(inputs[j].file)]).some

\* ------------------------------------------------------------ sanitize
SanitizeReturned == pc \in {"sanitized", "resanitized"}

\* C21: for every input, the result of sanitize holds none of the characters
\* / \ : * ? " < > | and no control character; every / and every \ of the
\* input stands in the result as a -, and the other forbidden characters
\* are deleted, nothing standing in their place: leaving aside whitespace
\* and dots, the result reads as the input does with / and \ turned into -
\* and the deleted characters dropped (after the _ of a reserved name, and
\* unless nothing is left).
C21_ForbiddenCharsReplacedOrDeleted ==
    SanitizeReturned =>
        LET Swapped == [i \in 1..Len(raw) |->
                           IF raw[i] \in {"/", "\\"} THEN "-" ELSE raw[i]]
            Visible(c) == c \notin {":", "*", "?", "\"", "<", ">", "|",
                                    "\t", "\n", " ", Nbsp, "."}
            want == SelectSeq(Swapped, Visible)
            got == SelectSeq(sanitized, Visible)
        IN  /\ \A i \in 1..Len(sanitized) :
                  sanitized[i] \notin {"/", "\\", ":", "*", "?", "\"", "<", ">",
                                       "|", "\t", "\n"}
            /\ \/ got = want
               \/ got = <<"_">> \o want
               \/ want = <<>> /\ sanitized = <<"U","n","k","n","o","w","n">>

\* A slash, a deleted character and a control character went in, and a -
\* came out.
C21_Witness ==
    /\ pc = "sanitized"
    /\ \E i, j, k \in 1..Len(raw) :
          raw[i] = "/" /\ raw[j] = ":" /\ raw[k] = "\t"
    /\ \E i \in 1..Len(sanitized) : sanitized[i] = "-"

\* C22: sanitize is idempotent: applied to its own result it returns that
\* result, also when the result is "Unknown" or a reserved name behind _.
C22_Idempotent ==
    pc = "resanitized" => resanitized = sanitized

\* A reserved name got its _, and the second call returned it unchanged.
C22_Witness ==
    /\ pc = "resanitized"
    /\ sanitized = <<"_">> \o raw
    /\ resanitized = sanitized

\* C23: sanitize never returns the empty string; when the input is empty or
\* holds nothing but deleted characters, control characters, whitespace and
\* dots, the result is exactly "Unknown".
C23_NeverEmpty ==
    SanitizeReturned =>
        /\ sanitized # <<>>
        /\ (\A i \in 1..Len(raw) :
                raw[i] \in {":", "*", "?", "\"", "<", ">", "|",
                            "\t", "\n", " ", Nbsp, "."})
              => sanitized = <<"U","n","k","n","o","w","n">>

\* An input of deleted characters, dots and spaces became "Unknown".
C23_Witness ==
    /\ pc = "sanitized"
    /\ \E i, j, k \in 1..Len(raw) :
          raw[i] = ":" /\ raw[j] = "." /\ raw[k] = " "
    /\ sanitized = <<"U","n","k","n","o","w","n">>

\* C24: sanitize puts a _ before the cleaned, trimmed text exactly when that
\* text is, ignoring ASCII case, one of CON, PRN, AUX, NUL, COM1..COM9,
\* LPT1..LPT9; a text that only starts with such a name (CONSOLE, CONNECT)
\* gets none, and the letter case of the text is kept.
C24_ReservedNamePrefixed ==
    SanitizeReturned =>
        LET t == Cleaned(raw)
            Names == {<<"C","O","N">>, <<"P","R","N">>, <<"A","U","X">>,
                      <<"N","U","L">>}
                     \cup {<<"C","O","M",d>> :
                              d \in {"1","2","3","4","5","6","7","8","9"}}
                     \cup {<<"L","P","T",d>> :
                              d \in {"1","2","3","4","5","6","7","8","9"}}
            IsName == \E r \in Names :
                         /\ Len(r) = Len(t)
                         /\ \A i \in 1..Len(r) : AsciiUpper(t[i]) = r[i]
        IN  /\ t # <<>> => sanitized = (IF IsName THEN <<"_">> \o t ELSE t)
            /\ raw = <<"C","O","N","S","O","L","E">> => sanitized = raw
            /\ raw = <<"C","O","N","N","E","C","T">> => sanitized = raw
            /\ raw = <<"c","o","n">> => sanitized = <<"_","c","o","n">>

\* A reserved name written with a small letter got its _ and kept the letter.
C24_Witness ==
    /\ pc = "sanitized"
    /\ sanitized = <<"_">> \o raw
    /\ \E i \in 1..Len(raw) : raw[i] = "c"

\* C27: the result of sanitize neither starts nor ends with a space or a
\* dot, and holds no two whitespace characters in a row: whitespace in it is
\* single spaces, every whitespace character of the input counting as a
\* space and a run of them as one.  Control characters, tab and newline
\* among them, are deleted before that: the result is the one the input
\* without the control character has.
C27_TrimmedCollapsedControlsJoined ==
    SanitizeReturned =>
        LET Control(c) == c \in {"\t", "\n"}
            Space(c) == c \in {" ", Nbsp}
            Without(str, i) ==
                SubSeq(str, 1, i - 1) \o SubSeq(str, i + 1, Len(str))
            WithAt(str, i, c) == [str EXCEPT ![i] = c]
        IN  /\ sanitized[1] \notin {" ", "."}
            /\ sanitized[Len(sanitized)] \notin {" ", "."}
            /\ \A i \in 1..Len(sanitized) :
                  (Space(sanitized[i]) \/ Control(sanitized[i])) =>
                      /\ sanitized[i] = " "
                      /\ sanitized[i + 1] # " "
            /\ \A i \in 1..Len(raw) :
                  /\ Control(raw[i]) => sanitized = sanitize(Without(raw, i))
                  /\ Space(raw[i]) => sanitized = sanitize(WithAt(raw, i, " "))
                  /\ (i < Len(raw) /\ Space(raw[i]) /\ Space(raw[i + 1]))
                        => sanitized = sanitize(Without(raw, i))

\* A tab between two letters went, and the letters stand side by side.
C27_Witness ==
    /\ pc = "sanitized"
    /\ \E i \in 2..(Len(raw) - 1) :
          /\ raw[i] = "\t"
          /\ raw[i - 1] \in {"C", "O", "N", "s"}
          /\ raw[i + 1] \in {"C", "O", "N", "h"}
    /\ \A i \in 1..Len(sanitized) : sanitized[i] # " "
    /\ Len(sanitized) = Len(raw) - 1

\* ------------------------------------------------------------ resolve_conflicts
\* C25: resolve_conflicts terminates on every batch and every disk: it
\* returns to main; while it works on an entry, each pass of the loop builds
\* the candidate with the next suffix (1, 2, ... in turn, none twice), the
\* suffix never exceeds MAX_CONFLICT_ATTEMPTS, and once the candidate with
\* the ceiling as suffix is built the loop is left for the next entry, also
\* when every candidate collides.
C25_ResolveTerminatesWithinCeiling ==
    /\ <>ResolveReturned
    /\ [](counter \in 1..MAX_CONFLICT_ATTEMPTS)
    /\ [][pc = "rc_loop" =>
            \/ /\ pc' = "rc_loop"
               /\ candidate' = Candidate(planned[ri].dest, counter)
               /\ counter' = counter + 1
               /\ ri' = ri
            \/ /\ pc' = "rc_commit"
               /\ \/ candidate' = candidate
                  \/ /\ counter = MAX_CONFLICT_ATTEMPTS
                     /\ candidate' = Candidate(planned[ri].dest, counter)]_vars

\* The call returned although the planned name of an entry and all of its
\* suffixed names up to the ceiling were on disk.
C25_Witness ==
    /\ ResolveReturned
    /\ \E i \in gaveUp :
          /\ Exists(disk, planned[i].dest)
          /\ \A n \in 1..MAX_CONFLICT_ATTEMPTS :
                Exists(disk, Candidate(planned[i].dest, n))

\* C26: resolve_conflicts changes nothing on disk: it only asks whether
\* paths exist, so no step of the call creates, removes, renames or rewrites
\* a file or a directory, and the disk after the call is the disk before.
C26_ResolveLeavesDisk == [][disk' = disk]_vars

\* The call returned after renaming an entry whose planned name is taken by
\* a file; that file and the free name are as they were.
C26_Witness ==
    /\ ResolveReturned
    /\ disk = atCall
    /\ \E i \in 1..Len(moves) :
          /\ moves[i].dest # planned[i].dest
          /\ Exists(disk, planned[i].dest)
          /\ ~Exists(disk, moves[i].dest)

\* C29: after resolve_conflicts, an entry that was not in place and for
\* which the loop did not reach the ceiling keeps its planned dest when that
\* path neither exists on disk nor was taken by an earlier entry; otherwise
\* its dest is the planned name with the smallest suffix n >= 1 whose path
\* neither exists on disk nor was taken by an earlier entry.
C29_SmallestFreeSuffix ==
    ResolveReturned =>
        \A i \in 1..Len(moves) :
            LET d == planned[i].dest
                Taken(p) ==
                    \/ Exists(disk, p)
                    \/ \E j \in 1..(i - 1) :
                          /\ planned[j].source # planned[j].dest
                          /\ moves[j].dest = p
            IN  (planned[i].source # d /\ i \notin gaveUp) =>
                    IF ~Taken(d) THEN moves[i] = planned[i]
                    ELSE \E n \in 1..MAX_CONFLICT_ATTEMPTS :
                            /\ moves[i].dest = Candidate(d, n)
                            /\ ~Taken(Candidate(d, n))
                            /\ \A k \in 1..(n - 1) : Taken(Candidate(d, k))

\* An entry got suffix 2 below the ceiling: its planned name is a file on
\* disk and suffix 1 went to an earlier entry.
C29_Witness ==
    /\ ResolveReturned
    /\ gaveUp = {}
    /\ \E i \in 1..Len(moves) : \E j \in 1..(i - 1) :
          /\ moves[i].dest = Candidate(planned[i].dest, 2)
          /\ Exists(disk, planned[i].dest)
          /\ moves[j].dest = Candidate(planned[i].dest, 1)

\* C30: resolve_conflicts never changes the source or the folder_name of an
\* entry and never adds, removes or reorders entries; when it changes a
\* dest, the new dest lies in the directory of the planned one, and only the
\* last component, which file_name then names, differs.
C30_ResolveChangesNameOnly ==
    /\ Len(moves) = Len(planned)
    /\ \A i \in 1..Len(moves) :
          /\ moves[i].source = planned[i].source
          /\ moves[i].folder_name = planned[i].folder_name
          /\ Len(moves[i].dest) = Len(planned[i].dest)
          /\ \A k \in 1..(Len(planned[i].dest) - 1) :
                moves[i].dest[k] = planned[i].dest[k]
          /\ IF moves[i].dest = planned[i].dest
             THEN moves[i].file_name = planned[i].file_name
             ELSE moves[i].file_name = moves[i].dest[Len(moves[i].dest)]

\* The call returned with one entry renamed and the other as planned.
C30_Witness ==
    /\ ResolveReturned
    /\ \E i, j \in 1..Len(moves) :
          /\ moves[i].dest # planned[i].dest
          /\ moves[i].file_name # planned[i].file_name
          /\ moves[j] = planned[j]
          /\ moves[j].source # moves[j].dest

\* ------------------------------------------------------------ read_tags
\* C28: an empty artist or album never reaches compute_destination.  For a
\* file whose artist or album is missing or empty (or that cannot be read,
\* or has no tag) read_tags returns no metadata and main plans it with
\* compute_unsorted_destination; for every other file read_tags returns
\* the artist and the album as they are, both not empty.  So each scanned
\* file has exactly one PlannedMove, at its position, into the folder
\* "Artist - Album" of its sanitized tags or into "_Unsorted".
C28_EmptyArtistOrAlbumIsUnsorted ==
    /\ Len(planned) = Len(inputs)
    /\ Len(moves) = Len(inputs)
    /\ \A i \in 1..Len(inputs) :
          LET probe == inputs[i].probe
              Lacks(field) == ~field.some \/ field.val = <<>>
              lacking == \/ ~probe.readable
                         \/ ~probe.tag.some
                         \/ Lacks(probe.tag.val.artist)
                         \/ Lacks(probe.tag.val.album)
          IN  /\ planned[i].source = inputs[i].file
              /\ IF lacking
                 THEN /\ inputs[i].tags = None
                      /\ planned[i] =
                            compute_unsorted_destination(BaseDir, inputs[i].file)
                      /\ planned[i].folder_name =
                            <<"_","U","n","s","o","r","t","e","d">>
                 ELSE /\ inputs[i].tags.some
                      /\ inputs[i].tags.val.artist = probe.tag.val.artist.val
                      /\ inputs[i].tags.val.album = probe.tag.val.album.val
                      /\ inputs[i].tags.val.artist # <<>>
                      /\ inputs[i].tags.val.album # <<>>
                      /\ planned[i] = compute_destination(
                                          BaseDir, inputs[i].file,
                                          inputs[i].tags.val)
                      /\ planned[i].folder_name =
                            sanitize(probe.tag.val.artist.val)
                            \o <<" ", "-", " ">>
                            \o sanitize(probe.tag.val.album.val)

\* A file whose tag has an empty artist went to _Unsorted, and a file with
\* artist and album went to their folder.
C28_Witness ==
    /\ Len(planned) = 2
    /\ \E i, j \in 1..2 :
          /\ inputs[i].probe.tag.some
          /\ inputs[i].probe.tag.val.artist = Some(<<>>)
          /\ inputs[i].probe.tag.val.album = Some(<<"B">>)
          /\ planned[i].folder_name = <<"_","U","n","s","o","r","t","e","d">>
          /\ inputs[j].tags.some
          /\ planned[j].folder_name = <<"A", " ", "-", " ", "B">>

\* ------------------------------------------------------------ destinations
\* C31: every dest the planning functions produce, and every dest
\* resolve_conflicts keeps or rewrites, lies exactly two components below
\* base_dir: it is base_dir, then folder_name, then file_name, each of the
\* two a single component (not empty, no path separator, neither "." nor
\* ".."), whatever the tags and the name of the source are.
C31_DestTwoBelowBase ==
    \A i \in 1..Len(moves) : \A m \in {planned[i], moves[i]} :
        LET Single(name) ==
                /\ name # <<>>
                /\ name # <<".">>
                /\ name # <<".", ".">>
                /\ \A k \in 1..Len(name) : name[k] # "/"
        IN  /\ Single(m.folder_name)
            /\ Single(m.file_name)
            /\ Len(m.dest) = Len(BaseDir) + 2
            /\ SubSeq(m.dest, 1, Len(BaseDir)) = BaseDir
            /\ m.dest[Len(BaseDir) + 1] = m.folder_name
            /\ m.dest[Len(BaseDir) + 2] = m.file_name

\* A file whose album is ".." and whose title starts with a separator was
\* planned twice, and resolve_conflicts renamed one of the two.
C31_Witness ==
    /\ ResolveReturned
    /\ \E i, j \in 1..Len(moves) :
          /\ inputs[i].probe.tag.some
          /\ inputs[i].probe.tag.val.album = Some(<<".", ".">>)
          /\ inputs[i].probe.tag.val.title = Some(<<"/", "T">>)
          /\ inputs[j].probe = inputs[i].probe
          /\ moves[j].dest # planned[j].dest
          /\ i # j

\* ------------------------------------------------------------ execute_move
\* C32: when execute_move returns the error of the source's removal, the
\* copy across devices was made and verified before: the source is still
\* the file it was at the call, and dest is a file holding all of its
\* bytes; the copy is not taken back.
C32_RemoveFailureKeepsBoth ==
    (Returned /\ result.tag = "remove") =>
        /\ result # Ok
        /\ xi \in fallback
        /\ bytes_copied = source_len
        /\ IsFile(disk, cur.source)
        /\ disk[cur.source] = atCall[cur.source]
        /\ IsFile(disk, cur.dest)
        /\ disk[cur.dest].data = atCall[cur.source].data

\* The removal failed after a copy onto a name that was free at the call;
\* source and copy are both there.
C32_Witness ==
    /\ Returned
    /\ result.tag = "remove"
    /\ ~Exists(atCall, cur.dest)
    /\ IsFile(disk, cur.source)
    /\ disk[cur.dest] = disk[cur.source]
    /\ Len(disk[cur.dest].data) > 0

\* ------------------------------------------------------------ resolve again
\* C33: resolve_conflicts is idempotent on an unchanged disk: when it is
\* called again on a batch it has resolved without any entry reaching the
\* ceiling, the second call changes no dest and no file_name, at no point
\* of its run, and reaches the ceiling for no entry either.
C33_ResolveIdempotent ==
    (first.some /\ first.val.gaveUp = {}) =>
        /\ disk = atCall
        /\ gaveUp = {}
        /\ \A i \in 1..Len(moves) :
              /\ moves[i].dest = first.val.moves[i].dest
              /\ moves[i].file_name = first.val.moves[i].file_name

\* The second call returned over a batch in which the first had renamed an
\* entry, below the ceiling.
C33_Witness ==
    /\ first.some
    /\ first.val.gaveUp = {}
    /\ ResolveReturned
    /\ Len(moves) = 2
    /\ \E i \in 1..Len(moves) :
          /\ first.val.moves[i].dest # planned[i].dest
          /\ moves[i] = first.val.moves[i]

====
